---- MODULE Spec2Model ----
(***************************************************************************)
(* LanyFS userspace utilities: mkfs.lanyfs (src/unnamed/part_000, with the *)
(* on-disk structures of lanyfs.h in src/unnamed/part_001) and             *)
(* detectfs.lanyfs (src/bin/detectfs.c).                                   *)
(*                                                                         *)
(* One behaviour is one invocation of mkfs.lanyfs on a device, followed by *)
(* one invocation of detectfs.lanyfs on the same device, both on the same  *)
(* host.  Strings are tuples of character codes.  64-bit quantities that   *)
(* take part in byte-order conversion are tuples of eight base-256 digits, *)
(* least significant digit first (a "U64"); plain counters are naturals.   *)
(***************************************************************************)
EXTENDS Integers, Sequences, FiniteSets, TLC

VARIABLES
    host,        \* byte order of the machine: "LE" or "BE"
    opts,        \* command line options not yet returned by getopt
    has_dev,     \* whether a device argument follows the options
    dev_size,    \* size of the device in bytes
    junk,        \* the stack: the bytes the reserved members of the struct
                 \* lanyfs_ts hold at each call of make_timestamp()
    gmtoff,      \* tm_gmtoff of localtime(): seconds east of UTC
    cfg,         \* struct mklanyfs_cfg
    pc,          \* position of mkfs.lanyfs in main()
    status,      \* exit status of mkfs.lanyfs: "running", "success", "failure"
    errmsg,      \* diagnostic printed by show_error()/show_usage()
    errblock,    \* the block address the diagnostic names, -1 when none
    warned,      \* "warning: address length not sufficient!" was printed
    super,       \* in-memory superblock (struct mklanyfs_b) or Null
    chain,       \* in-memory current chain block or Null
    current,     \* uint64_t current
    freeblocks,  \* uint64_t freeblocks
    disk,        \* the blocks of the device that were written, by address
    writes,      \* their addresses in the order they reached the device
    flushes,     \* the addresses flush_block() has handed to fwrite()
    prev,        \* the device before the block fwrite() took last
    clock,       \* reading of time(NULL)
    dpc,         \* position of detectfs.lanyfs in main()
    dbuf,        \* the DETECTFS_SB_SIZE bytes detectfs read
    dout,        \* lines detectfs printed on stdout, as <<field, value>>
    derr,        \* diagnostic of detectfs, "" when none
    unit         \* a function applied on its own: its arguments and results

vars == <<host, opts, has_dev, dev_size, junk, gmtoff, cfg, pc, status,
          errmsg, errblock, warned, super, chain, current, freeblocks, disk,
          writes, flushes, prev, clock, dpc, dbuf, dout, derr, unit>>

Null == [null |-> TRUE]

(***************************************************************************)
(* Program constants.                                                      *)
(***************************************************************************)
LANYFS_SUPER_MAGIC == 1498300748        \* 0x594E414C
LANYFS_MAJOR_VERSION == 1
LANYFS_MINOR_VERSION == 4
LANYFS_SUPERBLOCK == 0
LANYFS_MIN_ADDRLEN == 1
LANYFS_MAX_ADDRLEN == 8
LANYFS_MIN_BLOCKSIZE == 9
LANYFS_MAX_BLOCKSIZE == 12
LANYFS_NAME_LENGTH == 256
LANYFS_TYPE_DIR == 16                   \* 0x10
LANYFS_TYPE_EXT == 128                  \* 0x80
LANYFS_TYPE_SB == 208                   \* 0xD0
MKLANYFS_BLOCKSIZE == 12
MKLANYFS_ADDRLEN == 4
MKLANYFS_MIN_BLOCKS == 16
DETECTFS_SB_SIZE == 512

\* "LanyFS Storage"
MKLANYFS_LABEL == <<76, 97, 110, 121, 70, 83, 32, 83, 116, 111, 114, 97, 103, 101>>
\* "LANYFSROOT"
MKLANYFS_ROOTDIR == <<76, 65, 78, 89, 70, 83, 82, 79, 79, 84>>

(***************************************************************************)
(* Bounds of the model.                                                    *)
(***************************************************************************)
\* Largest device, counted in 512-byte sectors.
MaxSectors == 300
\* Latest reading of the clock, in seconds after the start of the run.
MaxClock == 1
\* Most slots of a block with every slot filled that is handed to the slot
\* accessors on their own.
MaxFullSlots == 64

(***************************************************************************)
(* Arithmetic helpers.                                                     *)
(***************************************************************************)
\* 1 << n.
Pow2(n) == 2 ^ n

Zeros(n) == [i \in 1..n |-> 0]

Reverse(s) == [i \in 1..Len(s) |-> s[Len(s) + 1 - i]]

RECURSIVE Digits(_, _)
Digits(n, k) == IF k = 0 THEN <<>> ELSE <<n % 256>> \o Digits(n \div 256, k - 1)

\* The eight base-256 digits of a natural, least significant first.
ToU64(n) == Digits(n, 8)

RECURSIVE DigitsVal(_)
DigitsVal(d) == IF d = <<>> THEN 0 ELSE d[1] + 256 * DigitsVal(Tail(d))

\* The natural a U64 stands for.
U64Val(d) == DigitsVal(d)

U64IsZero(d) == \A i \in 1..8 : d[i] = 0

\* a > b on uint64_t.
U64Gt(a, b) == \E i \in 1..8 : a[i] > b[i] /\ \A j \in (i + 1)..8 : a[j] = b[j]

(***************************************************************************)
(* Endian codec (part_000 lines 172-215, detectfs.c lines 106-149).        *)
(***************************************************************************)
\* *((unsigned char *) &i) for int i = 1: the byte at the lowest address.
FirstByteOfOne == IF host = "LE" THEN 1 ELSE 0

\* C's logical negation.
LogicalNot(x) == IF x = 0 THEN 1 ELSE 0

\* The condition of every codec function: !*((unsigned char *) &i) == 0x01,
\* which C parses as (!*p) == 0x01.
SwapNeeded == LogicalNot(FirstByteOfOne) = 1

bswap_16(n) == (n % 256) * 256 + (n \div 256)

bswap_64(d) == Reverse(d)

tole16(n) == IF SwapNeeded THEN bswap_16(n) ELSE n

fromle16(n) == IF SwapNeeded THEN bswap_16(n) ELSE n

tole64(d) == IF SwapNeeded THEN bswap_64(d) ELSE d

\* fromle64() that never swaps.
fromle64_noswap(d) == d

fromle64(d) == IF SwapNeeded THEN bswap_64(d) ELSE d

\* The bytes a multi-byte integer occupies in memory, lowest address first,
\* given its digits least significant first; and the way back.
MemBytes(d) == IF host = "LE" THEN d ELSE Reverse(d)

FromMemBytes(bytes) == IF host = "LE" THEN bytes ELSE Reverse(bytes)

(***************************************************************************)
(* Command line helpers.                                                   *)
(***************************************************************************)
IsSpace(c) == c \in {32, 9, 10, 11, 12, 13}

IsDigit(c) == c >= 48 /\ c <= 57

RECURSIVE SkipSpaces(_)
SkipSpaces(s) ==
    IF s # <<>> /\ IsSpace(s[1]) THEN SkipSpaces(Tail(s)) ELSE s

\* d * m + c on base-256 digits, least significant first; the element after
\* the last digit of the result is the carry out.
RECURSIVE MulAdd(_, _, _)
MulAdd(d, m, c) ==
    IF d = <<>> THEN <<c>>
    ELSE <<(d[1] * m + c) % 256>> \o MulAdd(Tail(d), m, (d[1] * m + c) \div 256)

\* The digit loop of strtol(): the magnitude read so far as eight base-256
\* digits followed by 0, or by a non-zero element once it left 64 bits.
AtoiStep(acc, c) ==
    LET r == MulAdd(SubSeq(acc, 1, 8), 10, c - 48)
    IN  SubSeq(r, 1, 8) \o <<IF acc[9] # 0 THEN 1 ELSE r[9]>>

RECURSIVE AtoiDigits(_, _)
AtoiDigits(s, acc) ==
    IF s # <<>> /\ IsDigit(s[1])
    THEN AtoiDigits(Tail(s), AtoiStep(acc, s[1]))
    ELSE acc

\* (int) of a long given by the low four base-256 digits of its two's
\* complement: the value of the low 32 bits, read as signed.
Int32(d) ==
    d[1] + 256 * d[2] + 65536 * d[3]
    + 16777216 * (IF d[4] >= 128 THEN d[4] - 256 ELSE d[4])

\* Negation on 32 bits.
Neg32(v) == IF v = -2147483647 - 1 THEN v ELSE 0 - v

\* atoi(3) of the C library in use: (int) strtol(s, NULL, 10).  Optional
\* white space, optional sign, then decimal digits; a magnitude beyond the
\* range of long gives LONG_MAX or LONG_MIN, and the conversion to int
\* keeps the low 32 bits.
atoi(s) ==
    LET t == SkipSpaces(s)
        neg == t # <<>> /\ t[1] = 45
        r == AtoiDigits(IF t # <<>> /\ t[1] \in {43, 45} THEN Tail(t) ELSE t,
                        Zeros(9))
    IN  IF r[9] # 0 \/ r[8] >= 128
        THEN (IF neg THEN 0 ELSE -1)
        ELSE IF neg THEN Neg32(Int32(r)) ELSE Int32(r)

RECURSIVE intlog2_loop(_, _)
intlog2_loop(n, b) ==
    IF n = 0 THEN -1
    ELSE IF n % 2 = 1 THEN (IF n > 1 THEN -1 ELSE b)
    ELSE intlog2_loop(n \div 2, b + 1)

\* intlog2(unsigned int n) called with an int: a negative argument converts
\* to 2^32 + v, whose lowest bit is v's and whose half is 2^31 + v/2.
intlog2(v) ==
    IF v >= 0 THEN intlog2_loop(v, 0)
    ELSE IF v % 2 = 1 THEN -1
    ELSE intlog2_loop(2147483647 + (1 + (v \div 2)), 1)

\* The test of case 'a' in main().
AddrlenOptionValid(tmp) ==
    /\ tmp >= LANYFS_MIN_ADDRLEN * 8
    /\ tmp <= LANYFS_MAX_ADDRLEN * 8
    /\ tmp % 8 = 0

\* The test of case 'b' in main().
BlocksizeOptionValid(tmp) ==
    tmp >= LANYFS_MIN_BLOCKSIZE /\ tmp <= LANYFS_MAX_BLOCKSIZE

\* strncpy(dst, src, n) into zeroed memory: at most n characters, NUL padded.
strncpy(src, n) == [i \in 1..n |-> IF i <= Len(src) THEN src[i] ELSE 0]

(***************************************************************************)
(* Timestamps.                                                             *)
(***************************************************************************)
\* gmtime() of a reading of time(NULL) within the first day of the epoch.
gmtime(t) ==
    [tm_year |-> 70, tm_mon |-> 0, tm_mday |-> 1, tm_hour |-> t \div 3600,
     tm_min |-> (t % 3600) \div 60, tm_sec |-> t % 60, tm_gmtoff |-> 0]

\* localtime(): of its members only tm_gmtoff is read.
localtime(t) == [tm_gmtoff |-> gmtoff]

\* a / b and a % b of C for b > 0: the quotient is truncated towards zero.
CDiv(a, b) == IF a >= 0 THEN a \div b ELSE 0 - ((0 - a) \div b)

CRem(a, b) == a - b * CDiv(a, b)

\* The automatic struct lanyfs_ts is returned by value with its reserved
\* members (__reserved_0[1], __reserved_1[2]) never assigned: they hold what
\* the stack holds at this call, the n-th of the run.  The date and the time
\* of day are those of gmtime(), the offset that of localtime(), in minutes.
make_timestamp(now, t, n) ==
    IF now
    THEN [year |-> gmtime(t).tm_year + 1900, mon |-> gmtime(t).tm_mon + 1,
          day |-> gmtime(t).tm_mday, hour |-> gmtime(t).tm_hour,
          min |-> gmtime(t).tm_min, sec |-> gmtime(t).tm_sec, nsec |-> 0,
          offset |-> CDiv(localtime(t).tm_gmtoff, 60), reserved |-> junk[n]]
    ELSE [year |-> 0, mon |-> 0, day |-> 0, hour |-> 0, min |-> 0, sec |-> 0,
          nsec |-> 0, offset |-> 0, reserved |-> junk[n]]

(***************************************************************************)
(* Blocks in memory.                                                       *)
(***************************************************************************)
\* allocate_superblock(): NULL when calloc() returns no memory (mem is
\* FALSE).  created and updated are one call of make_timestamp(), the first
\* of the run, checked is the second.
allocate_superblock(c, addr, t, mem) ==
    IF ~mem THEN Null
    ELSE [addr |-> addr, type |-> LANYFS_TYPE_SB, wrcnt |-> 0,
          major |-> LANYFS_MAJOR_VERSION, minor |-> LANYFS_MINOR_VERSION,
          magic |-> LANYFS_SUPER_MAGIC, blocksize |-> c.blocksize,
          addrlen |-> c.addrlen, rootdir |-> 0, blocks |-> c.dev_blocks,
          freehead |-> 0, freetail |-> 0, freeblocks |-> 0,
          created |-> make_timestamp(TRUE, t, 1),
          updated |-> make_timestamp(TRUE, t, 1),
          checked |-> make_timestamp(FALSE, t, 2), badblocks |-> 0,
          label |-> strncpy(c.vol_label, LANYFS_NAME_LENGTH)]

\* allocate_rootdir(): NULL without memory; its make_timestamp() is the
\* third call of the run.
allocate_rootdir(c, addr, t, mem) ==
    IF ~mem THEN Null
    ELSE [addr |-> addr, type |-> LANYFS_TYPE_DIR, wrcnt |-> 0, left |-> 0,
          right |-> 0, subtree |-> 0, created |-> make_timestamp(TRUE, t, 3),
          modified |-> make_timestamp(TRUE, t, 3), attr |-> 0,
          name |-> strncpy(MKLANYFS_ROOTDIR, LANYFS_NAME_LENGTH)]

\* The offset without __reserved_1[4].
OffsetofChainStream_noreserved == 1 + 1 + 2 + 8

\* offsetof(struct lanyfs_chain, stream): type, __reserved_0, wrcnt,
\* __reserved_1[4], next.
OffsetofChainStream == 1 + 1 + 2 + 4 + 8

\* allocate_chain() one block past the address it is given.
allocate_chain_offbyone(c, addr, mem) ==
    IF ~mem THEN Null
    ELSE [addr |-> addr + 1, type |-> LANYFS_TYPE_EXT, wrcnt |-> 0, next |-> 0,
          stream |-> Zeros(Pow2(c.blocksize) - OffsetofChainStream)]

\* allocate_chain(): NULL without memory; calloc() zeroes the block, and the
\* stream is the rest of the block.
allocate_chain(c, addr, mem) ==
    IF ~mem THEN Null
    ELSE [addr |-> addr, type |-> LANYFS_TYPE_EXT, wrcnt |-> 0, next |-> 0,
          stream |-> Zeros(Pow2(c.blocksize) - OffsetofChainStream)]

chain_count_slots(c) == (Pow2(c.blocksize) - OffsetofChainStream) \div c.addrlen

\* The decoded address of a slot, as a U64.
chain_get_slot(c, b, slot) ==
    IF slot >= chain_count_slots(c) THEN ToU64(0)
    ELSE fromle64(FromMemBytes(
             SubSeq(b.stream, slot * c.addrlen + 1, (slot + 1) * c.addrlen)
             \o Zeros(8 - c.addrlen)))

\* chain_get_free_slot() whose loop stops one slot early.
chain_get_free_slot_short(c, b) ==
    LET scan[i \in 0..chain_count_slots(c)] ==
            IF i >= chain_count_slots(c) - 1 THEN -1
            ELSE IF U64IsZero(chain_get_slot(c, b, i)) THEN i
            ELSE scan[i + 1]
    IN  scan[0]

\* The for loop of chain_get_free_slot(): the first slot from i on that
\* decodes to 0, or -1.
chain_get_free_slot(c, b) ==
    LET scan[i \in 0..chain_count_slots(c)] ==
            IF i >= chain_count_slots(c) THEN -1
            ELSE IF U64IsZero(chain_get_slot(c, b, i)) THEN i
            ELSE scan[i + 1]
    IN  scan[0]

\* The return value of chain_set_slot().
chain_set_slot_rc(c, b, addr) == IF chain_get_free_slot(c, b) < 0 THEN -1 ELSE 0

\* memcpy(dst + off, src, n) on a byte sequence.
memcpy(dst, off, src, n) ==
    SubSeq(dst, 1, off) \o SubSeq(src, 1, n) \o SubSeq(dst, off + n + 1, Len(dst))

\* chain_set_slot() whose memcpy copies all 8 bytes of tole64(addr).
chain_store_slot_wide(c, b, slot, addr) ==
    IF slot < 0 THEN b
    ELSE [b EXCEPT !.stream =
             memcpy(b.stream, slot * c.addrlen, MemBytes(tole64(addr)), 8)]

\* The store of chain_set_slot(): memcpy of the first addrlen bytes of
\* tole64(addr) into the slot found free; no store when slot < 0.  The
\* address is a U64.
chain_store_slot(c, b, slot, addr) ==
    IF slot < 0 THEN b
    ELSE [b EXCEPT !.stream =
             memcpy(b.stream, slot * c.addrlen,
                    MemBytes(tole64(addr)), c.addrlen)]

\* The block after chain_set_slot().
chain_set_slot(c, b, addr) ==
    chain_store_slot(c, b, chain_get_free_slot(c, b), addr)

\* flush_block() when fseeko() and fwrite() succeed: the block in memory
\* after the counter update, which is the block handed to fwrite().  Without
\* an open device the function returns before it touches the block.
flush_block(c, b) ==
    IF ~c.dev_fp THEN b
    ELSE [b EXCEPT !.wrcnt = tole16((fromle16(b.wrcnt) + 1) % 65536)]

\* What fwrite() puts on the device: the block without its address.
BlockImage(b) == [f \in DOMAIN b \ {"addr"} |-> b[f]]

\* The device after fwrite() at pos = addr * blocksize.
DiskWrite(d, b) ==
    [a \in DOMAIN d \cup {b.addr} |-> IF a = b.addr THEN BlockImage(b) ELSE d[a]]

\* (uint64_t) 1 << n.  A shift by the width of the type is undefined: the
\* builds of the tool produce 1 (count taken modulo 64) or 0.
ShiftOne(n) ==
    IF n < 64 THEN {[i \in 1..8 |-> IF i = (n \div 8) + 1 THEN Pow2(n % 8) ELSE 0]}
    ELSE {ToU64(1), ToU64(0)}

(***************************************************************************)
(* Inputs.                                                                 *)
(***************************************************************************)
Opt(o, a) == [opt |-> o, arg |-> a]

\* Arguments of -a the tool takes: "8" "16" "24" "32" "40" "48" "56" "64",
\* and "16x", which atoi() reads as 16.
GoodAddrlenArgs ==
    {<<56>>, <<49, 54>>, <<50, 52>>, <<51, 50>>, <<52, 48>>, <<52, 56>>,
     <<53, 54>>, <<54, 52>>, <<49, 54, 120>>}

\* Arguments of -a it turns down: "0" "12" "72" "-8" "x".
BadAddrlenArgs == {<<48>>, <<49, 50>>, <<55, 50>>, <<45, 56>>, <<120>>}

AddrlenArgs == GoodAddrlenArgs \cup BadAddrlenArgs

\* Arguments of -b the tool takes: "512" "1024" "2048" "4096", and " 512",
\* which atoi() reads as 512.
GoodBlocksizeArgs ==
    {<<53, 49, 50>>, <<49, 48, 50, 52>>, <<50, 48, 52, 56>>, <<52, 48, 57, 54>>,
     <<32, 53, 49, 50>>}

\* Arguments of -b it turns down: "0" "256" "513" "768" "8192" "-512".
BadBlocksizeArgs ==
    {<<48>>, <<50, 53, 54>>, <<53, 49, 51>>, <<55, 54, 56>>, <<56, 49, 57, 50>>,
     <<45, 53, 49, 50>>}

BlocksizeArgs == GoodBlocksizeArgs \cup BadBlocksizeArgs

\* Arguments beyond the range of int: "4294967312" (2^32 + 16) and
\* "-4294967280" (16 - 2^32) for -a, "4294967808" (2^32 + 512) for -b.
AddrlenWrapArgs ==
    {<<52, 50, 57, 52, 57, 54, 55, 51, 49, 50>>,
     <<45, 52, 50, 57, 52, 57, 54, 55, 50, 56, 48>>}

BlocksizeWrapArgs == {<<52, 50, 57, 52, 57, 54, 55, 56, 48, 56>>}

\* Arguments of -l: "A", and 255 times "B", 256 times "C", 300 times "D".
LabelArgs ==
    {<<65>>, [i \in 1..(LANYFS_NAME_LENGTH - 1) |-> 66],
     [i \in 1..LANYFS_NAME_LENGTH |-> 67], [i \in 1..300 |-> 68]}

\* The option lists: no option, one option, or -a followed by -b.
OptionLists ==
    {<<>>, <<Opt("v", <<>>)>>, <<Opt("?", <<>>)>>}
    \cup {<<Opt("a", a)>> : a \in AddrlenWrapArgs}
    \cup {<<Opt("b", b)>> : b \in BlocksizeWrapArgs}
    \cup {<<Opt("l", l)>> : l \in LabelArgs}
    \cup {<<Opt("a", a)>> : a \in AddrlenArgs}
    \cup {<<Opt("b", b)>> : b \in BlocksizeArgs}
    \cup {<<Opt("a", a), Opt("b", b)>> : a \in AddrlenArgs, b \in BlocksizeArgs}

\* The option lists that end the run in the getopt() loop, before the device
\* is looked at.
UsageOptionLists ==
    {o \in OptionLists :
        \E i \in 1..Len(o) : \/ o[i].opt = "?"
                              \/ (o[i].opt = "a" /\ o[i].arg \in BadAddrlenArgs)
                              \/ (o[i].opt = "b" /\ o[i].arg \in BadBlocksizeArgs)}

\* The command lines: every option list with a device, and two without.
CommandLines ==
    {[opts |-> o, has_dev |-> TRUE] : o \in OptionLists}
    \cup {[opts |-> o, has_dev |-> FALSE] : o \in {<<>>, <<Opt("v", <<>>)>>}}

\* Device sizes in bytes: 15 sectors and a rest, 16, 64, and the largest
\* device and one byte.
DeviceSizes == {15 * 512 + 100, 16 * 512, 64 * 512, MaxSectors * 512 + 1}

\* Stacks: what the reserved members of the struct lanyfs_ts of
\* make_timestamp() (__reserved_0[0], __reserved_1[0], __reserved_1[1]) hold
\* at each of the four calls of a run.  The members are
\* never assigned, so any bytes may be there: a zeroed stack, which is what
\* the calls of main() meet in the little-endian build, and a stack filled
\* with 0xA5.
StackZero == [n \in 1..4 |-> <<0, 0, 0>>]

StackFilled == [n \in 1..4 |-> <<165, 165, 165>>]

\* Zones of localtime(), as seconds east of UTC: UTC, EST5 and IST-5:30.
GmtOffsets == {0, -18000, 19800}

\* The machines of a run: both byte orders with a zeroed stack in UTC, a
\* little-endian one with a zeroed stack in EST5, a big-endian one with a
\* filled stack in IST-5:30.
Environments ==
    {[host |-> "LE", junk |-> StackZero, gmtoff |-> 0],
     [host |-> "BE", junk |-> StackZero, gmtoff |-> 0],
     [host |-> "LE", junk |-> StackZero, gmtoff |-> -18000],
     [host |-> "BE", junk |-> StackFilled, gmtoff |-> 19800]}

\* The runs: every command line on every device and machine; a command line
\* that ends in the getopt() loop reads neither the device nor the clock and
\* is run on one device, in UTC.
Runs ==
    {r \in [cl : CommandLines, size : DeviceSizes, env : Environments] :
        r.cl.opts \in UsageOptionLists
            => r.size = 64 * 512 /\ r.env.gmtoff = 0}

Init ==
    /\ \E r \in Runs :
         /\ opts = r.cl.opts
         /\ has_dev = r.cl.has_dev
         /\ dev_size = r.size
         /\ host = r.env.host
         /\ junk = r.env.junk
         /\ gmtoff = r.env.gmtoff
    /\ cfg = [blocksize |-> MKLANYFS_BLOCKSIZE, addrlen |-> MKLANYFS_ADDRLEN,
              vol_label |-> MKLANYFS_LABEL, verbose |-> 0, dev_fp |-> FALSE,
              dev_bytes |-> 0, dev_blocks |-> 0, dev_overhead |-> 0]
    /\ pc = "getopt"
    /\ status = "running"
    /\ errmsg = ""
    /\ errblock = -1
    /\ warned = FALSE
    /\ super = Null
    /\ chain = Null
    /\ current = LANYFS_SUPERBLOCK + 1
    /\ freeblocks = 0
    /\ disk = <<>>
    /\ writes = <<>>
    /\ flushes = <<>>
    /\ prev = <<>>
    /\ clock = 0
    /\ dpc = "wait"
    /\ dbuf = <<>>
    /\ dout = <<>>
    /\ derr = ""
    /\ unit = Null

(***************************************************************************)
(* mkfs.lanyfs: main().                                                    *)
(***************************************************************************)
mkfs_state == <<cfg, pc, status, errmsg, errblock, warned, super, chain,
                current, freeblocks, disk, writes, flushes, prev, clock,
                opts>>

detect_state == <<dpc, dbuf, dout, derr>>

inputs == <<host, has_dev, dev_size, junk, gmtoff>>

\* show_error() and show_usage(): print and exit(EXIT_FAILURE).
Exit(msg) ==
    /\ pc' = "exit"
    /\ status' = "failure"
    /\ errmsg' = msg
    /\ errblock' = -1

\* fwrite() has taken block b: the block is the device's, unless the stream
\* later fails to write it out.
Written(b) ==
    /\ disk' = DiskWrite(disk, b)
    /\ writes' = Append(writes, b.addr)
    /\ flushes' = Append(flushes, b.addr)
    /\ prev' = disk

\* The buffer of the device stream has the st_blksize of the device, 4096
\* bytes: fwrite() keeps a smaller block in the buffer, from where the next
\* fseeko() or fclose() writes it out, and hands a block of 4096 bytes to
\* write(2) at once.
Buffered(c) == c.blocksize < 12

\* The device when the block fwrite() took last never left the buffer of
\* the stream: the device before that fwrite().
LastWriteLost ==
    [disk |-> prev, writes |-> SubSeq(writes, 1, Len(writes) - 1)]

\* flush_block() of block b ends in show_error(): fseeko() failed, for the
\* seek itself or for the write of the block the stream still held, which
\* is then not on the device, and fwrite() is not called; or fwrite() was
\* called and failed to write block b.
FlushFailure(b) ==
    /\ pc' = "exit"
    /\ status' = "failure"
    /\ errblock' = b.addr
    /\ \/ /\ errmsg' = "seek error at block"
          /\ \/ UNCHANGED <<disk, writes>>
             \/ /\ writes # <<>>
                /\ Buffered(cfg)
                /\ disk' = LastWriteLost.disk
                /\ writes' = LastWriteLost.writes
          /\ UNCHANGED flushes
       \/ /\ ~Buffered(cfg)
          /\ errmsg' = "write error at block"
          /\ flushes' = Append(flushes, b.addr)
          /\ UNCHANGED <<disk, writes>>
    /\ UNCHANGED <<cfg, opts, warned, super, chain, freeblocks, prev, inputs,
                   unit, detect_state>>

\* exit() writes out the block the stream still holds; when that write
\* fails the block never reaches the device.
ExitFlush ==
    \/ UNCHANGED <<disk, writes>>
    \/ /\ Buffered(cfg)
       /\ writes # <<>>
       /\ disk' = LastWriteLost.disk
       /\ writes' = LastWriteLost.writes

\* An allocate function returned NULL: show_error(), which ends in exit().
AllocFailure(msg) ==
    /\ Exit(msg)
    /\ ExitFlush
    /\ UNCHANGED <<cfg, opts, warned, super, chain, freeblocks, flushes, prev,
                   clock, inputs, unit, detect_state>>

\* One turn of the getopt() loop.
ParseOption ==
    /\ pc = "getopt"
    /\ opts # <<>>
    /\ opts' = Tail(opts)
    /\ LET o == Head(opts)
       IN  CASE o.opt = "a" ->
                  IF AddrlenOptionValid(atoi(o.arg))
                  THEN /\ cfg' = [cfg EXCEPT !.addrlen = atoi(o.arg) \div 8]
                       /\ UNCHANGED <<pc, status, errmsg, errblock>>
                  ELSE /\ Exit("invalid address length")
                       /\ UNCHANGED cfg
             [] o.opt = "b" ->
                  IF BlocksizeOptionValid(intlog2(atoi(o.arg)))
                  THEN /\ cfg' = [cfg EXCEPT !.blocksize = intlog2(atoi(o.arg))]
                       /\ UNCHANGED <<pc, status, errmsg, errblock>>
                  ELSE /\ Exit("invalid blocksize")
                       /\ UNCHANGED cfg
             [] o.opt = "l" ->
                  /\ cfg' = [cfg EXCEPT !.vol_label = o.arg]
                  /\ UNCHANGED <<pc, status, errmsg, errblock>>
             [] o.opt = "v" ->
                  /\ cfg' = [cfg EXCEPT !.verbose = 1]
                  /\ UNCHANGED <<pc, status, errmsg, errblock>>
             [] OTHER ->
                  /\ Exit("usage")
                  /\ UNCHANGED cfg
    /\ UNCHANGED <<warned, super, chain, current, freeblocks, disk, writes, flushes, prev,
                   clock, inputs, unit, detect_state>>

\* getopt() returned -1: the device argument.
DeviceArgument ==
    /\ pc = "getopt"
    /\ opts = <<>>
    /\ IF has_dev
       THEN pc' = "open" /\ UNCHANGED <<status, errmsg, errblock>>
       ELSE Exit("usage")
    /\ UNCHANGED <<cfg, opts, warned, super, chain, current, freeblocks, disk,
                   writes, flushes, prev, clock, inputs, unit, detect_state>>

\* open_device() and the test of dev_fp.
OpenDevice ==
    /\ pc = "open"
    /\ \E opened \in BOOLEAN :
         IF opened
         THEN /\ cfg' = [cfg EXCEPT
                    !.dev_fp = TRUE,
                    !.dev_bytes = dev_size,
                    !.dev_overhead = dev_size % Pow2(cfg.blocksize),
                    !.dev_blocks = dev_size \div Pow2(cfg.blocksize)]
              /\ pc' = "minblocks"
              /\ UNCHANGED <<status, errmsg, errblock>>
         ELSE /\ Exit("error opening device")
              /\ UNCHANGED cfg
    /\ UNCHANGED <<opts, warned, super, chain, current, freeblocks, disk,
                   writes, flushes, prev, clock, inputs, unit, detect_state>>

\* main() without the test of MKLANYFS_MIN_BLOCKS.
CheckMinBlocks_skip ==
    /\ pc = "minblocks"
    /\ pc' = "config"
    /\ UNCHANGED <<status, errmsg, errblock, cfg, opts, warned, super, chain, current,
                   freeblocks, disk, writes, flushes, prev, clock, inputs, unit, detect_state>>

\* The test of MKLANYFS_MIN_BLOCKS.
CheckMinBlocks ==
    /\ pc = "minblocks"
    /\ IF cfg.dev_blocks < MKLANYFS_MIN_BLOCKS
       THEN Exit("device fits less than 16 blocks")
       ELSE pc' = "config" /\ UNCHANGED <<status, errmsg, errblock>>
    /\ UNCHANGED <<cfg, opts, warned, super, chain, current, freeblocks, disk,
                   writes, flushes, prev, clock, inputs, unit, detect_state>>

\* "show configuration": the address length test and the clamp.
ShowConfiguration ==
    /\ pc = "config"
    /\ \E limit \in ShiftOne(cfg.addrlen * 8) :
         IF U64Gt(ToU64(cfg.dev_blocks), limit)
         THEN /\ warned' = TRUE
              /\ cfg' = [cfg EXCEPT !.dev_blocks = U64Val(limit)]
         ELSE UNCHANGED <<warned, cfg>>
    /\ pc' = "super"
    /\ UNCHANGED <<opts, status, errmsg, errblock, super, chain, current, freeblocks,
                   disk, writes, flushes, prev, clock, inputs, unit, detect_state>>

\* "write superblock": allocate_superblock(), the test of its result, and
\* flush_block().
WriteSuperblock ==
    /\ pc = "super"
    /\ \E mem \in BOOLEAN :
         LET b == allocate_superblock(cfg, LANYFS_SUPERBLOCK, clock, mem)
         IN  IF b = Null
             THEN /\ AllocFailure("error allocating superblock")
                  /\ UNCHANGED current
             ELSE \/ /\ Written(flush_block(cfg, b))
                     /\ super' = [flush_block(cfg, b) EXCEPT !.badblocks = 0]
                     /\ pc' = "root"
                     /\ UNCHANGED <<cfg, opts, status, errmsg, errblock,
                                    warned, chain, current, freeblocks, clock,
                                    inputs, unit, detect_state>>
                  \/ /\ FlushFailure(b)
                     /\ UNCHANGED <<current, clock>>

\* "create root directory": allocate_rootdir(&cfg, current++), which reads
\* the clock (it may have advanced) when it has memory, the test of its
\* result, and flush_block().
CreateRootdir ==
    /\ pc = "root"
    /\ current' = current + 1
    /\ \/ /\ allocate_rootdir(cfg, current, clock, FALSE) = Null
          /\ AllocFailure("error allocating root directory")
       \/ \E t \in clock..MaxClock :
            LET root == allocate_rootdir(cfg, current, t, TRUE)
            IN  /\ clock' = t
                /\ \/ /\ Written(flush_block(cfg, root))
                      /\ super' = [super EXCEPT !.rootdir = root.addr]
                      /\ pc' = "chain"
                      /\ UNCHANGED <<cfg, opts, status, errmsg, errblock,
                                     warned, chain, freeblocks, inputs, unit,
                                     detect_state>>
                   \/ FlushFailure(root)

\* The first chain block without its freeblocks++.
FirstChain_nocount ==
    /\ pc = "chain"
    /\ current' = current + 1
    /\ \E mem \in BOOLEAN :
         LET b == allocate_chain(cfg, current, mem)
         IN  IF b = Null
             THEN /\ Exit("error allocating chain")
                  /\ ExitFlush
                  /\ UNCHANGED <<chain, super, freeblocks>>
             ELSE /\ chain' = b
                  /\ super' = [super EXCEPT !.freehead = b.addr]
                  /\ pc' = "map"
                  /\ UNCHANGED <<status, errmsg, errblock, freeblocks, disk,
                                 writes>>
    /\ UNCHANGED <<cfg, opts, warned, flushes, prev, clock, inputs, unit,
                   detect_state>>

\* "write first chain block for free blocks": allocate_chain(&cfg,
\* current++) and the test of its result.
FirstChain ==
    /\ pc = "chain"
    /\ current' = current + 1
    /\ \E mem \in BOOLEAN :
         LET b == allocate_chain(cfg, current, mem)
         IN  IF b = Null
             THEN /\ Exit("error allocating chain")
                  /\ ExitFlush
                  /\ UNCHANGED <<chain, super, freeblocks>>
             ELSE /\ chain' = b
                  /\ super' = [super EXCEPT !.freehead = b.addr]
                  /\ freeblocks' = freeblocks + 1
                  /\ pc' = "map"
                  /\ UNCHANGED <<status, errmsg, errblock, disk, writes>>
    /\ UNCHANGED <<cfg, opts, warned, flushes, prev, clock, inputs, unit,
                   detect_state>>

\* The full chain block is flushed and replaced: flush_block(),
\* allocate_chain() of the address new_addr with the cursor moving on to
\* next_current, and the test of its result.  When the allocation fails,
\* exit() has the full block to write out, and the block is not on the
\* device when that write fails.
Rotate(new_addr, next_current) ==
    \/ /\ current' = next_current
       /\ \E mem \in BOOLEAN :
            LET full == flush_block(cfg, [chain EXCEPT !.next = current])
                b == allocate_chain(cfg, new_addr, mem)
            IN  IF b = Null
                THEN /\ Exit("error allocating chain")
                     /\ chain' = Null
                     /\ flushes' = Append(flushes, full.addr)
                     /\ prev' = disk
                     /\ \/ /\ disk' = DiskWrite(disk, full)
                           /\ writes' = Append(writes, full.addr)
                        \/ /\ Buffered(cfg)
                           /\ UNCHANGED <<disk, writes>>
                     /\ UNCHANGED freeblocks
                ELSE /\ Written(full)
                     /\ chain' = b
                     /\ freeblocks' = freeblocks + 1
                     /\ UNCHANGED <<pc, status, errmsg, errblock>>
       /\ UNCHANGED <<cfg, opts, warned, super, inputs, unit, detect_state>>
    \/ /\ FlushFailure([chain EXCEPT !.next = current])
       /\ UNCHANGED current

\* The mapping loop whose rotation passes current, not current++, to
\* allocate_chain().
MapFreeSpace_stay ==
    /\ pc = "map"
    /\ current < cfg.dev_blocks
    /\ \E slot \in {chain_get_free_slot(cfg, chain)} :
           \/ /\ slot < 0
              /\ Rotate(current, current)
           \/ /\ slot >= 0
              /\ chain' = chain_store_slot(cfg, chain, slot, ToU64(current))
              /\ current' = current + 1
              /\ freeblocks' = freeblocks + 1
              /\ UNCHANGED <<cfg, opts, pc, status, errmsg, errblock, warned,
                             super, disk, writes, flushes, prev, inputs, unit,
                             detect_state>>
    /\ UNCHANGED clock

\* A turn of the mapping loop: the chain block is full and is flushed and
\* replaced by a new one at the current address, or the current address is
\* recorded in it.
MapFreeSpace ==
    /\ pc = "map"
    /\ current < cfg.dev_blocks
    /\ \E slot \in {chain_get_free_slot(cfg, chain)} :
           \/ /\ slot < 0
              /\ Rotate(current, current + 1)
           \/ /\ slot >= 0
              /\ chain' = chain_store_slot(cfg, chain, slot, ToU64(current))
              /\ current' = current + 1
              /\ freeblocks' = freeblocks + 1
              /\ UNCHANGED <<cfg, opts, pc, status, errmsg, errblock, warned,
                             super, disk, writes, flushes, prev, inputs, unit,
                             detect_state>>
    /\ UNCHANGED clock

\* The end of the loop without the flush of the last chain block.
FinishChain_noflush ==
    /\ pc = "map"
    /\ ~(current < cfg.dev_blocks)
    /\ super' = [super EXCEPT !.freetail = chain.addr,
                              !.freeblocks = freeblocks]
    /\ chain' = Null
    /\ pc' = "update"
    /\ UNCHANGED <<cfg, opts, status, errmsg, errblock, warned, current,
                   freeblocks, disk, writes, flushes, prev, clock, inputs,
                   unit, detect_state>>

\* The loop ends: the last chain block is written.
FinishChain ==
    /\ pc = "map"
    /\ ~(current < cfg.dev_blocks)
    /\ \/ /\ super' = [super EXCEPT !.freetail = chain.addr,
                                    !.freeblocks = freeblocks]
          /\ Written(flush_block(cfg, chain))
          /\ chain' = Null
          /\ pc' = "update"
          /\ UNCHANGED <<cfg, opts, status, errmsg, errblock, warned,
                         freeblocks, inputs, unit, detect_state>>
       \/ FlushFailure(chain)
    /\ UNCHANGED <<current, clock>>

\* "update superblock": the fourth call of make_timestamp() and
\* flush_block(); the clock may have advanced since it was read last.
UpdateSuperblock ==
    /\ pc = "update"
    /\ \E t \in clock..MaxClock :
         /\ clock' = t
         /\ \/ /\ Written(flush_block(cfg, [super EXCEPT
                              !.updated = make_timestamp(TRUE, t, 4)]))
               /\ super' = Null
               /\ pc' = "close"
               /\ UNCHANGED <<cfg, opts, status, errmsg, errblock, warned,
                              chain, freeblocks, inputs, unit, detect_state>>
            \/ FlushFailure(super)
    /\ UNCHANGED current

\* close_device() and return EXIT_SUCCESS.  fclose() writes out the block
\* the stream still holds, and close_device() does not look at its result:
\* when that write fails the block never reaches the device and the tool
\* ends with "all done" all the same.
CloseDevice ==
    /\ pc = "close"
    /\ cfg' = [cfg EXCEPT !.dev_fp = FALSE]
    /\ pc' = "exit"
    /\ status' = "success"
    /\ \/ UNCHANGED <<disk, writes>>
       \/ /\ Buffered(cfg)
          /\ disk' = LastWriteLost.disk
          /\ writes' = LastWriteLost.writes
    /\ UNCHANGED <<opts, errmsg, errblock, warned, super, chain, current,
                   freeblocks, flushes, prev, clock, inputs, unit,
                   detect_state>>

(***************************************************************************)
(* The superblock as bytes (struct lanyfs_sb, struct lanyfs_ts).           *)
(***************************************************************************)
\* An unsigned field of the given width as it lies in memory.
Native(v, width) == MemBytes(Digits(v, width))

\* A signed 16-bit field as it lies in memory.
NativeS16(v) == Native(IF v < 0 THEN v + 65536 ELSE v, 2)

\* An unsigned 16-bit pattern read as int16_t.
Int16(v) == IF v >= 32768 THEN v - 65536 ELSE v

\* abs(3).
abs(v) == IF v < 0 THEN 0 - v ELSE v

\* The value of the unsigned field at byte offset off (from 0).
Field(bytes, off, width) ==
    DigitsVal(FromMemBytes(SubSeq(bytes, off + 1, off + width)))

TsBytes(ts) ==
    Native(ts.year, 2)
    \o <<ts.mon, ts.day, ts.hour, ts.min, ts.sec, ts.reserved[1]>>
    \o Native(ts.nsec, 4) \o NativeS16(ts.offset)
    \o <<ts.reserved[2], ts.reserved[3]>>

\* struct lanyfs_sb with four more reserved bytes after wrcnt and no
\* alignment of its members.
SbStructBytes_packed(b) ==
    <<b.type, 0>> \o Native(b.wrcnt, 2) \o Zeros(4) \o Native(b.magic, 4)
    \o <<b.major, 0, b.minor, 0, b.blocksize, 0, b.addrlen, 0>>
    \o Native(b.rootdir, 8) \o Native(b.blocks, 8) \o Native(b.freehead, 8)
    \o Native(b.freetail, 8) \o Native(b.freeblocks, 8)
    \o TsBytes(b.created) \o TsBytes(b.updated) \o TsBytes(b.checked)
    \o Native(b.badblocks, 8) \o Zeros(8) \o b.label

\* struct lanyfs_sb, member after member.
SbStructBytes(b) ==
    <<b.type, 0>> \o Native(b.wrcnt, 2) \o Native(b.magic, 4)
    \o <<b.major, 0, b.minor, 0, b.blocksize, 0, b.addrlen, 0>>
    \o Native(b.rootdir, 8) \o Native(b.blocks, 8) \o Native(b.freehead, 8)
    \o Native(b.freetail, 8) \o Native(b.freeblocks, 8)
    \o TsBytes(b.created) \o TsBytes(b.updated) \o TsBytes(b.checked)
    \o Native(b.badblocks, 8) \o Zeros(8) \o b.label

\* struct lanyfs_chain, member after member, the stream filling the block.
ChainStructBytes(b) ==
    <<b.type, 0>> \o Native(b.wrcnt, 2) \o Zeros(4) \o Native(b.next, 8)
    \o b.stream

\* The first DETECTFS_SB_SIZE bytes of a written superblock.
SbPrefix(b) ==
    LET s == SbStructBytes(b)
    IN  [i \in 1..DETECTFS_SB_SIZE |-> IF i <= Len(s) THEN s[i] ELSE 0]

\* What block 0 may hold when mkfs.lanyfs has not written it: zeroes, a
\* superblock tag without the magic, the superblock of an earlier format, or
\* that superblock under another block type.
StaleSuperblock ==
    LET c == [blocksize |-> MKLANYFS_BLOCKSIZE, addrlen |-> MKLANYFS_ADDRLEN,
              vol_label |-> MKLANYFS_LABEL, dev_blocks |-> MKLANYFS_MIN_BLOCKS,
              dev_fp |-> TRUE]
    IN  flush_block(c, flush_block(c,
            [allocate_superblock(c, LANYFS_SUPERBLOCK, 0, TRUE)
             EXCEPT !.rootdir = 1, !.freehead = 2, !.freetail = 2,
                    !.freeblocks = MKLANYFS_MIN_BLOCKS - 2]))

UnformattedPrefixes ==
    {Zeros(DETECTFS_SB_SIZE),
     [Zeros(DETECTFS_SB_SIZE) EXCEPT ![1] = LANYFS_TYPE_SB],
     SbPrefix(StaleSuperblock),
     [SbPrefix(StaleSuperblock) EXCEPT ![1] = LANYFS_TYPE_DIR]}

(***************************************************************************)
(* detectfs.lanyfs: main().                                                *)
(***************************************************************************)
\* struct lanyfs_ts read from the buffer at byte offset off.
TsField(bytes, off) ==
    [year |-> Field(bytes, off, 2), mon |-> bytes[off + 3],
     day |-> bytes[off + 4], hour |-> bytes[off + 5], min |-> bytes[off + 6],
     sec |-> bytes[off + 7], nsec |-> Field(bytes, off + 8, 4),
     offset |-> Int16(Field(bytes, off + 12, 2))]

\* The values a timestamp line is printed from: the members, with the
\* offset as offset / 60 and abs(offset % 60).
TsLine(ts) ==
    [year |-> ts.year, mon |-> ts.mon, day |-> ts.day, hour |-> ts.hour,
     min |-> ts.min, sec |-> ts.sec, nsec |-> ts.nsec,
     offset_hours |-> CDiv(ts.offset, 60),
     offset_minutes |-> abs(CRem(ts.offset, 60))]

\* sb->type, sb->wrcnt and sb->magic of the buffer.
SbType(bytes) == bytes[1]

SbWrcnt(bytes) == Field(bytes, 2, 2)

SbMagic(bytes) == Field(bytes, 4, 4)

\* The buffer seen through struct lanyfs_sb.
SbView(bytes) ==
    [type |-> SbType(bytes), wrcnt |-> SbWrcnt(bytes),
     magic |-> SbMagic(bytes), major |-> bytes[9], minor |-> bytes[11],
     blocksize |-> bytes[13], addrlen |-> bytes[15],
     rootdir |-> Field(bytes, 16, 8), blocks |-> Field(bytes, 24, 8),
     freehead |-> Field(bytes, 32, 8), freetail |-> Field(bytes, 40, 8),
     freeblocks |-> Field(bytes, 48, 8), created |-> TsField(bytes, 56),
     updated |-> TsField(bytes, 72), checked |-> TsField(bytes, 88),
     badblocks |-> Field(bytes, 104, 8)]

\* fopen() and the fgetc() loop, once mkfs.lanyfs has exited.  The tool is
\* not run on a device that has just failed a seek or a write.
DetectRead ==
    /\ dpc = "wait"
    /\ pc = "exit"
    /\ errblock = -1
    /\ \E opened \in BOOLEAN :
         IF opened
         THEN /\ dbuf' \in (IF LANYFS_SUPERBLOCK \in DOMAIN disk
                            THEN {SbPrefix(disk[LANYFS_SUPERBLOCK])}
                            ELSE UnformattedPrefixes)
              /\ dpc' = "type"
              /\ UNCHANGED derr
         ELSE /\ derr' = "error opening device"
              /\ dpc' = "exit"
              /\ UNCHANGED dbuf
    /\ UNCHANGED <<dout, mkfs_state, inputs, unit>>

\* The block type line with a check that does not exit.
DetectType_noexit ==
    /\ dpc = "type"
    /\ dout' = Append(dout, <<"blocktype", SbType(dbuf)>>)
    /\ dpc' = "magic"
    /\ UNCHANGED <<derr, dbuf, mkfs_state, inputs, unit>>

\* The block type line and the block type check.
DetectType ==
    /\ dpc = "type"
    /\ dout' = Append(dout, <<"blocktype", SbType(dbuf)>>)
    /\ IF SbType(dbuf) # LANYFS_TYPE_SB
       THEN derr' = "block type mismatch" /\ dpc' = "exit"
       ELSE dpc' = "magic" /\ UNCHANGED derr
    /\ UNCHANGED <<dbuf, mkfs_state, inputs, unit>>

\* The write counter and magic lines and the magic check.
DetectMagic ==
    /\ dpc = "magic"
    /\ dout' = dout \o <<<<"write counter", SbWrcnt(dbuf)>>,
                         <<"magic", SbMagic(dbuf)>>>>
    /\ IF SbMagic(dbuf) # LANYFS_SUPER_MAGIC
       THEN derr' = "magic mismatch" /\ dpc' = "exit"
       ELSE dpc' = "report" /\ UNCHANGED derr
    /\ UNCHANGED <<dbuf, mkfs_state, inputs, unit>>

\* The characters printf("%s") prints from a buffer: those before the first
\* NUL.  (Every buffer that gets this far ends in NUL bytes.)
CString(bytes) ==
    IF \E i \in 1..Len(bytes) : bytes[i] = 0
    THEN SubSeq(bytes, 1, (CHOOSE i \in 1..Len(bytes) :
                              /\ bytes[i] = 0
                              /\ \A j \in 1..(i - 1) : bytes[j] # 0) - 1)
    ELSE bytes

\* The remaining lines.
DetectReport ==
    /\ dpc = "report"
    /\ LET sb == SbView(dbuf)
       IN  dout' = dout \o
             <<<<"version", <<sb.major, sb.minor>>>>,
               <<"address length", sb.addrlen * 8>>,
               <<"blocksize", Pow2(sb.blocksize)>>,
               <<"root dir", sb.rootdir>>,
               <<"total blocks", sb.blocks>>,
               <<"free head", sb.freehead>>,
               <<"free tail", sb.freetail>>,
               <<"free blocks", sb.freeblocks>>,
               <<"created", TsLine(sb.created)>>,
               <<"updated", TsLine(sb.updated)>>,
               <<"checked", TsLine(sb.checked)>>,
               <<"badblocks", sb.badblocks>>,
               <<"volume label", CString(SubSeq(dbuf, 121, Len(dbuf)))>>>>
    /\ dpc' = "exit"
    /\ UNCHANGED <<dbuf, derr, mkfs_state, inputs, unit>>

Next ==
    \/ ParseOption
    \/ DeviceArgument
    \/ OpenDevice
    \/ CheckMinBlocks
    \/ ShowConfiguration
    \/ WriteSuperblock
    \/ CreateRootdir
    \/ FirstChain
    \/ MapFreeSpace
    \/ FinishChain
    \/ UpdateSuperblock
    \/ CloseDevice
    \/ DetectRead
    \/ DetectType
    \/ DetectMagic
    \/ DetectReport

Spec == Init /\ [][Next]_vars

\* The process runs on: a turn of the mapping loop that can be taken, and
\* the statements after the loop, are eventually executed.
FairInit == Init /\ host = "LE" /\ gmtoff = 0

FairSpec ==
    FairInit /\ [][Next]_vars /\ WF_vars(MapFreeSpace) /\ WF_vars(FinishChain)

(***************************************************************************)
(* The codec functions and the slot accessors applied on their own, to     *)
(* arguments main() never hands them.  unit.arg holds the arguments of the *)
(* application and unit.out the results so far.                            *)
(***************************************************************************)
\* Arguments of tole16(): 0, 1, 0xFF, 0x100, 0x102, 0x1234, 0x7FFF, 0x8000,
\* 0xABCD, 0xFF00, 0xFFFE, 0xFFFF.
Samples16 ==
    {0, 1, 255, 256, 258, 4660, 32767, 32768, 43981, 65280, 65534, 65535}

\* Arguments of tole64(), as U64: 0, 1, 0x0807060504030201, 2^64 - 1, 2^56,
\* 0xFF, 0xFF00000000000000, 0x100, 2^32, 0x00000000FFFFFFFF,
\* 0x0123456789ABCDEF, 0x8000000000000001.
Samples64 ==
    {ToU64(0), ToU64(1), <<1, 2, 3, 4, 5, 6, 7, 8>>,
     <<255, 255, 255, 255, 255, 255, 255, 255>>, <<0, 0, 0, 0, 0, 0, 0, 1>>,
     ToU64(255), <<0, 0, 0, 0, 0, 0, 0, 255>>, ToU64(256),
     <<0, 0, 0, 0, 1, 0, 0, 0>>, <<255, 255, 255, 255, 0, 0, 0, 0>>,
     <<239, 205, 171, 137, 103, 69, 35, 1>>, <<1, 0, 0, 0, 0, 0, 0, 128>>}

\* The configurations of the slot accessors: every address length with
\* blocks of 512 and of 1024 bytes.
SlotConfigs ==
    {[blocksize |-> bs, addrlen |-> al] :
        bs \in {LANYFS_MIN_BLOCKSIZE, LANYFS_MIN_BLOCKSIZE + 1},
        al \in LANYFS_MIN_ADDRLEN..LANYFS_MAX_ADDRLEN}

\* Contents of the stream of a chain block, by slot k and byte j of the slot
\* (both from 0); the bytes after the last slot hold 7.
\*   "empty"    no slot filled
\*   "prefix"   slots 0..2 filled with 1, 2, 3
\*   "holes"    every slot filled but slots 2 and 5
\*   "highbyte" slot 0 holds only its most significant byte, slot 1 is empty
\*   "full"     every slot filled
SlotPatterns == {"empty", "prefix", "holes", "highbyte", "full"}

PatternByte(p, c, k, j) ==
    CASE p = "empty" -> 0
      [] p = "prefix" -> IF k <= 2 /\ j = 0 THEN k + 1 ELSE 0
      [] p = "holes" -> IF k \in {2, 5} THEN 0 ELSE 1
      [] p = "highbyte" ->
             IF k = 0 THEN (IF j = c.addrlen - 1 THEN 5 ELSE 0)
             ELSE IF k = 1 THEN 0 ELSE 1
      [] OTHER -> 1

\* A chain block in memory with the stream of pattern p.
PatternBlock(p, c) ==
    [allocate_chain(c, 9, TRUE) EXCEPT
        !.wrcnt = 3,
        !.next = 77,
        !.stream = [i \in 1..(Pow2(c.blocksize) - OffsetofChainStream) |->
                       IF (i - 1) \div c.addrlen >= chain_count_slots(c) THEN 7
                       ELSE PatternByte(p, c, (i - 1) \div c.addrlen,
                                        (i - 1) % c.addrlen)]]

\* Addresses to store with address length al, as U64: 1, the bytes 1, 2, ..,
\* the largest address, and 2^(8 * (al - 1)).
SlotValues(al) ==
    {ToU64(1),
     [i \in 1..8 |-> IF i <= al THEN i ELSE 0],
     [i \in 1..8 |-> IF i <= al THEN 255 ELSE 0],
     [i \in 1..8 |-> IF i = al THEN 1 ELSE 0]}

\* The slots chain_get_slot() is asked for after a store.
ProbedSlots(c) ==
    {0, 1, 2, 3, 5, chain_count_slots(c) - 1, chain_count_slots(c),
     chain_count_slots(c) + 1, 2 * chain_count_slots(c)}

\* The applications: tole16() then fromle16() on its result, tole64() then
\* fromle64(), and chain_set_slot() then chain_get_slot().
Codec16Call(n) == [fn |-> "codec16", arg |-> n, out |-> <<>>]

Codec64Call(d) == [fn |-> "codec64", arg |-> d, out |-> <<>>]

SlotsCall(c, p, v) ==
    [fn |-> "slots", arg |-> [c |-> c, b |-> PatternBlock(p, c), v |-> v],
     pattern |-> p, out |-> <<>>]

UnitInit ==
    /\ host \in {"LE", "BE"}
    /\ \/ \E n \in Samples16 : unit = Codec16Call(n)
       \/ \E d \in Samples64 : unit = Codec64Call(d)
       \/ \E c \in SlotConfigs, p \in SlotPatterns :
              /\ p = "full" => chain_count_slots(c) <= MaxFullSlots
              /\ \E v \in SlotValues(c.addrlen) : unit = SlotsCall(c, p, v)
    /\ opts = <<>>
    /\ has_dev = FALSE
    /\ dev_size = 0
    /\ junk = StackZero
    /\ gmtoff = 0
    /\ cfg = [blocksize |-> MKLANYFS_BLOCKSIZE, addrlen |-> MKLANYFS_ADDRLEN,
              vol_label |-> MKLANYFS_LABEL, verbose |-> 0, dev_fp |-> FALSE,
              dev_bytes |-> 0, dev_blocks |-> 0, dev_overhead |-> 0]
    /\ pc = "unit"
    /\ status = "running"
    /\ errmsg = ""
    /\ errblock = -1
    /\ warned = FALSE
    /\ super = Null
    /\ chain = Null
    /\ current = LANYFS_SUPERBLOCK + 1
    /\ freeblocks = 0
    /\ disk = <<>>
    /\ writes = <<>>
    /\ flushes = <<>>
    /\ prev = <<>>
    /\ clock = 0
    /\ dpc = "unit"
    /\ dbuf = <<>>
    /\ dout = <<>>
    /\ derr = ""

UnitTole16 ==
    /\ unit # Null /\ unit.fn = "codec16" /\ Len(unit.out) = 0
    /\ unit' = [unit EXCEPT !.out = <<tole16(unit.arg)>>]
    /\ UNCHANGED <<mkfs_state, inputs, detect_state>>

UnitFromle16 ==
    /\ unit # Null /\ unit.fn = "codec16" /\ Len(unit.out) = 1
    /\ unit' = [unit EXCEPT !.out = Append(@, fromle16(unit.out[1]))]
    /\ UNCHANGED <<mkfs_state, inputs, detect_state>>

UnitTole64 ==
    /\ unit # Null /\ unit.fn = "codec64" /\ Len(unit.out) = 0
    /\ unit' = [unit EXCEPT !.out = <<tole64(unit.arg)>>]
    /\ UNCHANGED <<mkfs_state, inputs, detect_state>>

UnitFromle64 ==
    /\ unit # Null /\ unit.fn = "codec64" /\ Len(unit.out) = 1
    /\ unit' = [unit EXCEPT !.out = Append(@, fromle64(unit.out[1]))]
    /\ UNCHANGED <<mkfs_state, inputs, detect_state>>

\* chain_set_slot(&c, &b, v): its return value and the block afterwards.
UnitSetSlot ==
    /\ unit # Null /\ unit.fn = "slots" /\ Len(unit.out) = 0
    /\ unit' = [unit EXCEPT !.out =
                   <<[rc |-> chain_set_slot_rc(unit.arg.c, unit.arg.b, unit.arg.v),
                      b |-> chain_set_slot(unit.arg.c, unit.arg.b, unit.arg.v)]>>]
    /\ UNCHANGED <<mkfs_state, inputs, detect_state>>

\* chain_get_slot(&c, &b, i) on the block after the store, for the probed i.
UnitGetSlot ==
    /\ unit # Null /\ unit.fn = "slots" /\ Len(unit.out) = 1
    /\ unit' = [unit EXCEPT !.out =
                   Append(@, [i \in ProbedSlots(unit.arg.c) |->
                                 chain_get_slot(unit.arg.c, unit.out[1].b, i)])]
    /\ UNCHANGED <<mkfs_state, inputs, detect_state>>

UnitNext ==
    \/ UnitTole16
    \/ UnitFromle16
    \/ UnitTole64
    \/ UnitFromle64
    \/ UnitSetSlot
    \/ UnitGetSlot

UnitSpec == UnitInit /\ [][UnitNext]_vars

(***************************************************************************)
(* Reading a formatted device.  These definitions read the device as the   *)
(* on-disk format describes it (addresses least significant byte first),   *)
(* not through the tool's own accessors.                                   *)
(***************************************************************************)
Range(s) == {s[i] : i \in 1..Len(s)}

IsInjective(s) == \A i, j \in 1..Len(s) : s[i] = s[j] => i = j

NonZero(v) == v # 0

\* How often address a was handed to fwrite().
WriteCount(a) == Cardinality({i \in 1..Len(writes) : writes[i] = a})

\* mkfs.lanyfs returned EXIT_SUCCESS and detectfs.lanyfs is yet to start.
Formatted == pc = "exit" /\ status = "success" /\ dpc = "wait"

\* The block count the device has at the configured block size.
DeviceBlocks == dev_size \div Pow2(cfg.blocksize)

\* The written blocks that are chain blocks.
ChainBlocksOnDisk == {a \in DOMAIN disk : disk[a].type = LANYFS_TYPE_EXT}

\* The chain blocks met by following next from address a, for at most fuel
\* blocks; the walk stops at next = 0 and at anything that is no chain block.
RECURSIVE ChainWalk(_, _)
ChainWalk(a, fuel) ==
    IF fuel = 0 \/ a \notin ChainBlocksOnDisk THEN <<>>
    ELSE <<a>> \o (IF disk[a].next = 0 THEN <<>>
                   ELSE ChainWalk(disk[a].next, fuel - 1))

\* The free chain of the on-disk superblock.
FreeChain == ChainWalk(disk[LANYFS_SUPERBLOCK].freehead, Cardinality(DOMAIN disk) + 1)

\* The addresses in the slots of a block image, slot after slot, each read
\* as addrlen bytes, least significant first; empty slots left out.
SlotAddresses(img) ==
    SelectSeq([i \in 1..(Len(img.stream) \div cfg.addrlen) |->
                  DigitsVal(SubSeq(img.stream, (i - 1) * cfg.addrlen + 1,
                                   i * cfg.addrlen))],
              NonZero)

\* The addresses in the slots of the chain blocks w, in walking order.
RECURSIVE ChainAddresses(_)
ChainAddresses(w) ==
    IF w = <<>> THEN <<>>
    ELSE SlotAddresses(disk[Head(w)]) \o ChainAddresses(Tail(w))

\* The free list of the formatted device.
FreeList == ChainAddresses(FreeChain)

\* The write counter of a block image as the on-disk format reads it.
OnDiskWrcnt(img) == DigitsVal(Native(img.wrcnt, 2))

(***************************************************************************)
(* Claims.                                                                 *)
(***************************************************************************)

\* C1 (chain completeness): after a successful format of a device whose
\* effective block count B is at least 16, the addresses read slot by slot
\* along the free chain are exactly the addresses in [3, B) that are not a
\* chain block's own address, each exactly once; a 64-block device with
\* 512-byte blocks and 4-byte addresses lists exactly 61 addresses.
C1_ChainCompleteness ==
    (Formatted /\ cfg.dev_blocks >= MKLANYFS_MIN_BLOCKS) =>
        /\ IsInjective(FreeList)
        /\ Range(FreeList) = (3..(cfg.dev_blocks - 1)) \ Range(FreeChain)
        /\ (cfg.blocksize = 9 /\ cfg.addrlen = 4 /\ cfg.dev_blocks = 64)
               => Len(FreeList) = 61

\* C2 as stated (free count): after a successful format the superblock's
\* freeblocks equals the number of filled slots of the free chain.
C2_FreeCountIsFilledSlots ==
    Formatted => disk[LANYFS_SUPERBLOCK].freeblocks = Len(FreeList)

\* C2 amended: after a successful format the superblock's freeblocks equals
\* the number of filled slots of the free chain plus the number of chain
\* blocks of that chain.
C2_FreeCountIsSlotsAndChainBlocks ==
    Formatted =>
        disk[LANYFS_SUPERBLOCK].freeblocks = Len(FreeList) + Len(FreeChain)

\* C2 witness: a format whose chain has several blocks and filled slots.
C2_Witness ==
    /\ Formatted
    /\ Len(FreeChain) >= 2
    /\ Len(FreeList) > 0
    /\ disk[LANYFS_SUPERBLOCK].freeblocks > Len(FreeList)

\* C3 (minimum size): a device that holds fewer than 16 blocks at the
\* configured block size makes the tool fail with nothing written, and a
\* block is only ever written to a device that holds 16 blocks or more.
C3_MinimumSize ==
    /\ (pc = "exit" /\ cfg.dev_bytes > 0
        /\ cfg.dev_bytes \div Pow2(cfg.blocksize) < MKLANYFS_MIN_BLOCKS)
           => /\ status = "failure"
              /\ errmsg = "device fits less than 16 blocks"
              /\ writes = <<>>
              /\ DOMAIN disk = {}
    /\ writes # <<>> =>
           cfg.dev_bytes \div Pow2(cfg.blocksize) >= MKLANYFS_MIN_BLOCKS

\* C3 witness: a 16-sector device rejected at a block size of 1024 bytes.
C3_Witness ==
    /\ pc = "exit"
    /\ status = "failure"
    /\ errmsg = "device fits less than 16 blocks"
    /\ cfg.dev_bytes = 16 * 512
    /\ cfg.blocksize = 10
    /\ cfg.dev_blocks = 8
    /\ writes = <<>>

\* C4 (clamping): once the address length test has run, for every addrlen
\* in 1..8: if the device's block count exceeds 2^(addrlen*8) the block
\* count in use and in the superblock is 2^(addrlen*8) and the warning was
\* printed; otherwise the block count is the device's and no warning was
\* printed.
C4_Clamping ==
    (pc \in {"super", "root", "chain", "map", "update", "close"}
     \/ (pc = "exit" /\ status = "success")) =>
        /\ IF cfg.addrlen * 8 < 31 /\ DeviceBlocks > 2 ^ (cfg.addrlen * 8)
           THEN cfg.dev_blocks = 2 ^ (cfg.addrlen * 8) /\ warned
           ELSE cfg.dev_blocks = DeviceBlocks /\ ~warned
        /\ LANYFS_SUPERBLOCK \in DOMAIN disk
               => disk[LANYFS_SUPERBLOCK].blocks = cfg.dev_blocks

\* C5 (free-list shape): after a successful format rootdir is 1, freehead
\* is 2, and following next from freehead visits every chain block exactly
\* once in strictly increasing address order, ending at a block whose next
\* is 0 and whose address is the superblock's freetail.
C5_FreeListShape ==
    Formatted =>
        LET sb == disk[LANYFS_SUPERBLOCK]
            w  == FreeChain
        IN  /\ sb.rootdir = 1
            /\ disk[1].type = LANYFS_TYPE_DIR
            /\ sb.freehead = 2
            /\ w # <<>>
            /\ w[1] = 2
            /\ \A i \in 1..(Len(w) - 1) :
                   w[i] < w[i + 1] /\ disk[w[i]].next = w[i + 1]
            /\ Range(w) = ChainBlocksOnDisk
            /\ disk[w[Len(w)]].next = 0
            /\ w[Len(w)] = sb.freetail

\* The written chain blocks that were found full and replaced.
FullChainBlocks == {a \in ChainBlocksOnDisk : disk[a].next # 0}

\* C6 as stated (slot count): the allocator uses floor((2^blocksize - 12) /
\* addrlen) slots per chain block, the slot stream starting 12 bytes into
\* the block.
C6_SlotCountFromOffset12 ==
    pc = "map" =>
        /\ chain_count_slots(cfg) = (Pow2(cfg.blocksize) - 12) \div cfg.addrlen
        /\ Pow2(cfg.blocksize) - Len(chain.stream) = 12
        /\ \A a \in FullChainBlocks :
               Len(SlotAddresses(disk[a]))
                   = (Pow2(cfg.blocksize) - 12) \div cfg.addrlen

\* C6 amended: the allocator uses floor((2^blocksize - 16) / addrlen) slots
\* per chain block, the slot stream starting 16 bytes into the block: that
\* is chain_count_slots, what is left of the block for the stream, and the
\* number of addresses in every chain block that was found full.
C6_SlotCountFromOffset16 ==
    pc = "map" =>
        /\ chain_count_slots(cfg) = (Pow2(cfg.blocksize) - 16) \div cfg.addrlen
        /\ Pow2(cfg.blocksize) - Len(chain.stream) = 16
        /\ \A a \in FullChainBlocks :
               /\ Len(SlotAddresses(disk[a]))
                      = (Pow2(cfg.blocksize) - 16) \div cfg.addrlen
               /\ disk[a].next - a - 1
                      = (Pow2(cfg.blocksize) - 16) \div cfg.addrlen

\* C6 witness: the allocator at work after it replaced a full chain block of
\* 124 four-byte slots.
C6_Witness ==
    /\ pc = "map"
    /\ cfg.blocksize = 9
    /\ cfg.addrlen = 4
    /\ 2 \in FullChainBlocks
    /\ Len(SlotAddresses(disk[2])) = 124
    /\ chain.addr = 127

\* C7 (write counter): the write counter a written block carries on the
\* device is the number of times the block was flushed; after a successful
\* format that is 2 for the superblock and 1 for the root directory and for
\* every chain block.
C7_WriteCounter ==
    /\ \A a \in DOMAIN disk : OnDiskWrcnt(disk[a]) = WriteCount(a)
    /\ Formatted =>
           /\ OnDiskWrcnt(disk[LANYFS_SUPERBLOCK]) = 2
           /\ OnDiskWrcnt(disk[1]) = 1
           /\ \A a \in ChainBlocksOnDisk : OnDiskWrcnt(disk[a]) = 1

\* C8 (frame of format): the tool writes address 0, address 1 and the
\* addresses of chain blocks and no other; after a format no address
\* recorded in a chain slot was written; and when the block count was
\* clamped no address from 2^(addrlen*8) on was written.
C8_Frame ==
    /\ Range(writes) \subseteq {LANYFS_SUPERBLOCK, 1} \cup ChainBlocksOnDisk
    /\ Range(writes) = DOMAIN disk
    /\ Formatted => Range(FreeList) \cap Range(writes) = {}
    /\ (warned /\ cfg.addrlen * 8 < 31) =>
           \A a \in Range(writes) : a < 2 ^ (cfg.addrlen * 8)

\* C8 witness: a formatted device of more than 256 blocks with one-byte
\* addresses: the block count was clamped and the free list is filled.
C8_Witness ==
    /\ Formatted
    /\ warned
    /\ cfg.addrlen = 1
    /\ DeviceBlocks > 256
    /\ cfg.dev_blocks = 256
    /\ Len(FreeList) = 253

\* The values of -a and of -b that the tool is to accept.
AcceptedAddrlenBits == {8, 16, 24, 32, 40, 48, 56, 64}

AcceptedBlocksizes == {512, 1024, 2048, 4096}

\* The decimal digits an option argument starts with, after white space and
\* a sign, without leading zeros; no digit at all for the value 0.
RECURSIVE DigitPrefix(_)
DigitPrefix(s) ==
    IF s # <<>> /\ IsDigit(s[1]) THEN <<s[1]>> \o DigitPrefix(Tail(s)) ELSE <<>>

RECURSIVE StripZeros(_)
StripZeros(s) == IF s # <<>> /\ s[1] = 48 THEN StripZeros(Tail(s)) ELSE s

Numeral(s) ==
    LET t == SkipSpaces(s)
    IN  StripZeros(DigitPrefix(IF t # <<>> /\ t[1] \in {43, 45}
                               THEN Tail(t) ELSE t))

\* The decimal digits of a natural, none for 0.
RECURSIVE Decimal(_)
Decimal(n) == IF n = 0 THEN <<>> ELSE Decimal(n \div 10) \o <<48 + (n % 10)>>

\* The option argument s is the positive number n.
Denotes(s, n) ==
    /\ Numeral(s) = Decimal(n)
    /\ ~(SkipSpaces(s) # <<>> /\ SkipSpaces(s)[1] = 45)

\* C9 (configuration validation): a -a whose value is a multiple of 8 in
\* 8..64 sets addrlen to value/8 and a -b whose value is 512, 1024, 2048 or
\* 4096 sets the blocksize exponent to its logarithm; any other -a or -b
\* ends the tool with a failure while the device is unopened, unsized and
\* unwritten, and the tool does nothing after it has ended.
C9_ConfigValidation ==
    [][/\ (pc = "getopt" /\ opts # <<>> /\ Head(opts).opt = "a") =>
              IF \E n \in AcceptedAddrlenBits : Denotes(Head(opts).arg, n)
              THEN /\ pc' = "getopt"
                   /\ status' = "running"
                   /\ Denotes(Head(opts).arg, cfg'.addrlen * 8)
                   /\ cfg'.blocksize = cfg.blocksize
              ELSE /\ pc' = "exit"
                   /\ status' = "failure"
                   /\ errmsg' = "invalid address length"
                   /\ ~cfg'.dev_fp /\ cfg'.dev_bytes = 0 /\ writes' = <<>>
       /\ (pc = "getopt" /\ opts # <<>> /\ Head(opts).opt = "b") =>
              IF \E n \in AcceptedBlocksizes : Denotes(Head(opts).arg, n)
              THEN /\ pc' = "getopt"
                   /\ status' = "running"
                   /\ Denotes(Head(opts).arg, Pow2(cfg'.blocksize))
                   /\ cfg'.addrlen = cfg.addrlen
              ELSE /\ pc' = "exit"
                   /\ status' = "failure"
                   /\ errmsg' = "invalid blocksize"
                   /\ ~cfg'.dev_fp /\ cfg'.dev_bytes = 0 /\ writes' = <<>>
       /\ pc = "exit" => UNCHANGED mkfs_state]_vars

\* C10 (detect checks in order): a block type other than the superblock tag
\* ends detectfs with the type mismatch error after the block type line
\* alone; only a buffer of the right type has its magic compared, and a
\* magic other than 0x594E414C ends detectfs with the magic mismatch error
\* with no line after the magic line; the lines after it are printed only
\* when both checks passed.
C10_DetectOrder ==
    /\ derr = "block type mismatch" =>
           /\ dbuf[1] # LANYFS_TYPE_SB
           /\ dout = <<<<"blocktype", dbuf[1]>>>>
    /\ derr = "magic mismatch" =>
           /\ dbuf[1] = LANYFS_TYPE_SB
           /\ Field(dbuf, 4, 4) # LANYFS_SUPER_MAGIC
           /\ Len(dout) = 3
           /\ dout[3] = <<"magic", Field(dbuf, 4, 4)>>
    /\ Len(dout) > 1 => dbuf[1] = LANYFS_TYPE_SB
    /\ Len(dout) > 3 =>
           /\ Field(dbuf, 4, 4) = LANYFS_SUPER_MAGIC
           /\ derr = ""
    /\ (dpc = "exit" /\ dbuf # <<>>) =>
           /\ dbuf[1] # LANYFS_TYPE_SB => derr = "block type mismatch"
           /\ (dbuf[1] = LANYFS_TYPE_SB
               /\ Field(dbuf, 4, 4) # LANYFS_SUPER_MAGIC)
                  => derr = "magic mismatch"
           /\ (dbuf[1] = LANYFS_TYPE_SB
               /\ Field(dbuf, 4, 4) = LANYFS_SUPER_MAGIC)
                  => derr = "" /\ Len(dout) = 16

\* C10 witness: a buffer with the right magic under a wrong block type was
\* refused for its type, the block type line printed and nothing else.
C10_Witness ==
    /\ dpc = "exit"
    /\ derr = "block type mismatch"
    /\ Field(dbuf, 4, 4) = LANYFS_SUPER_MAGIC
    /\ Len(dout) = 1

\* C11 (endian codec): on a little-endian and on a big-endian host, the
\* bytes that the result of tole16/tole64 occupies in memory are the
\* little-endian encoding of the argument, the result being the argument
\* itself on a little-endian host and the argument with its bytes swapped on
\* a big-endian host, and fromle16/fromle64 of that result is the argument.
C11_EndianCodec ==
    /\ (unit # Null /\ unit.fn = "codec16" /\ Len(unit.out) >= 1) =>
           /\ Native(unit.out[1], 2) = Digits(unit.arg, 2)
           /\ unit.out[1] = (IF host = "LE" THEN unit.arg
                             ELSE (unit.arg % 256) * 256 + unit.arg \div 256)
           /\ Len(unit.out) = 2 => unit.out[2] = unit.arg
    /\ (unit # Null /\ unit.fn = "codec64" /\ Len(unit.out) >= 1) =>
           /\ MemBytes(unit.out[1]) = unit.arg
           /\ unit.out[1] = (IF host = "LE" THEN unit.arg
                             ELSE [i \in 1..8 |-> unit.arg[9 - i]])
           /\ Len(unit.out) = 2 => unit.out[2] = unit.arg

\* C11 witness: 0x0807060504030201 on a big-endian host went through
\* tole64(), which swapped its bytes, and came back through fromle64().
C11_Witness ==
    /\ host = "BE"
    /\ unit # Null
    /\ unit.fn = "codec64"
    /\ unit.arg = <<1, 2, 3, 4, 5, 6, 7, 8>>
    /\ Len(unit.out) = 2
    /\ unit.out[1] = <<8, 7, 6, 5, 4, 3, 2, 1>>
    /\ unit.out[2] = unit.arg

\* The unsigned value of the width bytes at byte offset off (from 0), read
\* least significant byte first.
LittleEndianField(bytes, off, width) ==
    DigitsVal(SubSeq(bytes, off + 1, off + width))

\* C12 (host-independent image): in every block written, the multi-byte
\* fields are stored least significant byte first whatever the host: the
\* write counter of every block, magic, rootdir, blocks, freehead, freetail,
\* freeblocks and the years of the timestamps of the superblock, and next
\* and the slots of a chain block.
C12_HostIndependentImage ==
    \A a \in DOMAIN disk :
        /\ OnDiskWrcnt(disk[a]) = WriteCount(a)
        /\ disk[a].type = LANYFS_TYPE_SB =>
               LET img == SbStructBytes(disk[a])
               IN  /\ LittleEndianField(img, 4, 4) = LANYFS_SUPER_MAGIC
                   /\ LittleEndianField(img, 16, 8) = disk[a].rootdir
                   /\ LittleEndianField(img, 24, 8) = disk[a].blocks
                   /\ LittleEndianField(img, 32, 8) = disk[a].freehead
                   /\ LittleEndianField(img, 40, 8) = disk[a].freetail
                   /\ LittleEndianField(img, 48, 8) = disk[a].freeblocks
                   /\ LittleEndianField(img, 56, 2) = disk[a].created.year
                   /\ LittleEndianField(img, 72, 2) = disk[a].updated.year
                   /\ LittleEndianField(img, 88, 2) = disk[a].checked.year
        /\ disk[a].type = LANYFS_TYPE_EXT =>
               LET img == ChainStructBytes(disk[a])
               IN  /\ Len(img) = Pow2(cfg.blocksize)
                   /\ LittleEndianField(img, 8, 8) = disk[a].next
                   /\ \A i \in 1..Len(SlotAddresses(disk[a])) :
                          SlotAddresses(disk[a])[i] = a + i

\* The superblock images written so far.
SuperblockImages ==
    {SbStructBytes(disk[a]) : a \in {x \in DOMAIN disk : disk[x].type = LANYFS_TYPE_SB}}

\* The values format has put into the superblock on the device: the values
\* of allocate_superblock() after the first write, the back-patched ones
\* after the second.
WrittenRootdir == IF WriteCount(LANYFS_SUPERBLOCK) = 2 THEN 1 ELSE 0

WrittenFreehead == IF WriteCount(LANYFS_SUPERBLOCK) = 2 THEN 2 ELSE 0

WrittenFreetail ==
    IF WriteCount(LANYFS_SUPERBLOCK) = 2 THEN writes[Len(writes) - 1] ELSE 0

WrittenFreeblocks ==
    IF WriteCount(LANYFS_SUPERBLOCK) = 2 THEN freeblocks ELSE 0

\* The superblock image img has its members at the byte offsets o (magic,
\* major, minor, blocksize, addrlen, rootdir, blocks, freehead, freetail,
\* freeblocks, created), with type at 0 and wrcnt at 2 and the timestamps
\* 16 bytes apart.
MembersAt(img, o) ==
    /\ img[1] = LANYFS_TYPE_SB
    /\ Field(img, 2, 2) = tole16(WriteCount(LANYFS_SUPERBLOCK))
    /\ Field(img, o.magic, 4) = LANYFS_SUPER_MAGIC
    /\ img[o.major + 1] = LANYFS_MAJOR_VERSION
    /\ img[o.minor + 1] = LANYFS_MINOR_VERSION
    /\ img[o.blocksize + 1] = cfg.blocksize
    /\ img[o.addrlen + 1] = cfg.addrlen
    /\ Field(img, o.rootdir, 8) = WrittenRootdir
    /\ Field(img, o.blocks, 8) = cfg.dev_blocks
    /\ Field(img, o.freehead, 8) = WrittenFreehead
    /\ Field(img, o.freetail, 8) = WrittenFreetail
    /\ Field(img, o.freeblocks, 8) = WrittenFreeblocks
    /\ Field(img, o.created, 2) = 1970
    /\ Field(img, o.created + 16, 2) = 1970
    /\ Field(img, o.created + 32, 2) = 0

\* C13 as stated (superblock field offsets): magic at 8, major at 12, minor
\* at 14, blocksize at 16, addrlen at 18, rootdir at 20, blocks at 28,
\* freehead at 36, freetail at 44, freeblocks at 52, timestamps from 60.
C13_OffsetsMagicAt8 ==
    \A img \in SuperblockImages :
        MembersAt(img, [magic |-> 8, major |-> 12, minor |-> 14,
                        blocksize |-> 16, addrlen |-> 18, rootdir |-> 20,
                        blocks |-> 28, freehead |-> 36, freetail |-> 44,
                        freeblocks |-> 52, created |-> 60])

\* C13 amended: in the superblock image written by format, magic occupies 4
\* bytes at byte offset 4, major is at 8, minor at 10, blocksize at 12,
\* addrlen at 14, rootdir (8 bytes) at 16, blocks at 24, freehead at 32,
\* freetail at 40, freeblocks at 48 and the three 16-byte timestamps start
\* at 56, with type at 0 and wrcnt at 2.
C13_OffsetsMagicAt4 ==
    \A img \in SuperblockImages :
        MembersAt(img, [magic |-> 4, major |-> 8, minor |-> 10,
                        blocksize |-> 12, addrlen |-> 14, rootdir |-> 16,
                        blocks |-> 24, freehead |-> 32, freetail |-> 40,
                        freeblocks |-> 48, created |-> 56])

\* C13 witness: the back-patched superblock of a formatted device with
\* 2-byte addresses and 512-byte blocks, its free list ending in a second
\* chain block.
C13_Witness ==
    /\ Formatted
    /\ cfg.addrlen = 2
    /\ cfg.blocksize = 9
    /\ cfg.dev_blocks = MaxSectors
    /\ WrittenFreetail = 251
    /\ \E img \in SuperblockImages :
           /\ Field(img, 40, 8) = 251
           /\ Field(img, 48, 8) = MaxSectors - 2
           /\ img[15] = 2

\* C14 (volume label): the 256-byte label field of every superblock written
\* holds the first min(length, 255) characters of the label given with -l
\* (or of the default label) followed by NUL bytes only, so it contains a
\* NUL.
C14_LabelTerminated ==
    \A img \in SuperblockImages :
        LET field == SubSeq(img, 121, 120 + LANYFS_NAME_LENGTH)
            kept == IF Len(cfg.vol_label) < LANYFS_NAME_LENGTH - 1
                    THEN Len(cfg.vol_label) ELSE LANYFS_NAME_LENGTH - 1
        IN  /\ \A i \in 1..LANYFS_NAME_LENGTH :
                   field[i] = (IF i <= kept THEN cfg.vol_label[i] ELSE 0)
            /\ \E i \in 1..LANYFS_NAME_LENGTH : field[i] = 0

\* Byte j (from 0, least significant first) of an address below 2^31.
AddressByte(v, j) == IF j >= 4 THEN 0 ELSE (v \div (256 ^ j)) % 256

\* The first f slots of the stream of the chain block at address addr hold
\* addr + 1, addr + 2, .., least significant byte first, and every other
\* byte of the stream is zero.
PrefixFilled(stream, addr, f) ==
    \A i \in 1..Len(stream) :
        stream[i] = (IF (i - 1) \div cfg.addrlen < f
                     THEN AddressByte(addr + 1 + (i - 1) \div cfg.addrlen,
                                      (i - 1) % cfg.addrlen)
                     ELSE 0)

\* C15 (chain fullness): in every state of the allocator loop the filled
\* slots of the current chain block are its first current - addr - 1 slots
\* and hold the consecutive addresses after its own, each fitting addrlen
\* bytes; every chain block that was given a non-zero next and replaced has
\* all of its floor((2^blocksize - 16) / addrlen) slots filled and the next
\* address as its next; and after format every chain block but the last,
\* the one at the highest address, is such a block.
C15_ChainFullness ==
    /\ pc = "map" =>
           /\ current - chain.addr - 1 \in 0..chain_count_slots(cfg)
           /\ PrefixFilled(chain.stream, chain.addr, current - chain.addr - 1)
           /\ cfg.addrlen * 8 < 31 => current <= 2 ^ (cfg.addrlen * 8)
    /\ \A a \in FullChainBlocks :
           /\ PrefixFilled(disk[a].stream, a,
                  (Pow2(cfg.blocksize) - OffsetofChainStream) \div cfg.addrlen)
           /\ disk[a].next
                  = a + 1 + (Pow2(cfg.blocksize) - OffsetofChainStream) \div cfg.addrlen
    /\ Formatted =>
           {a \in ChainBlocksOnDisk : \E b \in ChainBlocksOnDisk : b > a}
               = FullChainBlocks

\* C15 witness: the loop at work on a partly filled chain block of 3-byte
\* slots after a full one was replaced.
C15_Witness ==
    /\ pc = "map"
    /\ cfg.addrlen = 3
    /\ cfg.blocksize = 9
    /\ FullChainBlocks = {2}
    /\ chain.addr = 168
    /\ current = 171
    /\ SubSeq(chain.stream, 1, 9) = <<169, 0, 0, 170, 0, 0, 0, 0, 0>>

\* The bytes of slot k (from 0) of a chain block.
SlotBytes(c, b, k) == SubSeq(b.stream, k * c.addrlen + 1, (k + 1) * c.addrlen)

\* The slots of a chain block that decode to 0: all their bytes are 0.
ZeroSlots(c, b) ==
    {k \in 0..((Pow2(c.blocksize) - OffsetofChainStream) \div c.addrlen - 1) :
        SlotBytes(c, b, k) = Zeros(c.addrlen)}

\* The least element of a non-empty set of naturals.
Least(S) == CHOOSE k \in S : \A m \in S : k <= m

\* C16 (slot accessors): on either host, for every addrlen 1..8 and value v
\* with 0 < v < 2^(addrlen*8), chain_set_slot(block, v) returns 0 and
\* changes exactly the bytes of the lowest-index slot that decoded to 0, to
\* the addrlen low bytes of v least significant first, so that
\* chain_get_slot of that index returns v; every other byte of the stream,
\* every other slot read back, and type, write counter and next are
\* unchanged; when no slot decodes to 0 it returns -1 and leaves the block
\* unchanged; and chain_get_slot returns 0 for every index at or beyond the
\* slot count.
C16_SlotAccessors ==
    (unit # Null /\ unit.fn = "slots" /\ Len(unit.out) = 2) =>
        LET c == unit.arg.c
            b0 == unit.arg.b
            v == unit.arg.v
            rc == unit.out[1].rc
            b1 == unit.out[1].b
            got == unit.out[2]
            n == (Pow2(c.blocksize) - OffsetofChainStream) \div c.addrlen
            Z == ZeroSlots(c, b0)
        IN  /\ Z # {} =>
                   /\ rc = 0
                   /\ SlotBytes(c, b1, Least(Z)) = SubSeq(v, 1, c.addrlen)
                   /\ Len(b1.stream) = Len(b0.stream)
                   /\ \A i \in 1..Len(b0.stream) :
                          (i - 1) \div c.addrlen # Least(Z)
                              => b1.stream[i] = b0.stream[i]
                   /\ [b1 EXCEPT !.stream = b0.stream] = b0
                   /\ Least(Z) \in DOMAIN got => got[Least(Z)] = v
            /\ Z = {} => rc = -1 /\ b1 = b0
            /\ \A i \in DOMAIN got :
                   /\ i >= n => got[i] = ToU64(0)
                   /\ (i < n /\ (Z = {} \/ i # Least(Z))) =>
                          got[i] = SlotBytes(c, b0, i) \o Zeros(8 - c.addrlen)

\* C16 witness: on a big-endian host the value 0x030201 was stored in slot
\* 2, the first hole of a block of 3-byte slots, and read back.
C16_Witness ==
    /\ unit # Null /\ unit.fn = "slots" /\ Len(unit.out) = 2
    /\ host = "BE"
    /\ unit.pattern = "holes"
    /\ unit.arg.c.addrlen = 3
    /\ unit.arg.v = <<1, 2, 3, 0, 0, 0, 0, 0>>
    /\ unit.out[1].rc = 0
    /\ SubSeq(unit.out[1].b.stream, 1, 12) = <<1, 1, 1, 1, 1, 1, 1, 2, 3, 1, 1, 1>>
    /\ unit.out[2][2] = <<1, 2, 3, 0, 0, 0, 0, 0>>
    /\ unit.out[2][5] = ToU64(0)

\* C16 witness of the other case: a block with no free slot was offered a
\* value and slots beyond the last were read.
C16_WitnessFull ==
    /\ unit # Null /\ unit.fn = "slots" /\ Len(unit.out) = 2
    /\ unit.pattern = "full"
    /\ unit.out[1].rc = -1
    /\ unit.out[2][chain_count_slots(unit.arg.c)] = ToU64(0)

\* The cursor in the mapping loop of a device of at least 16 effective
\* blocks: between 3 and the block count, and three more than the number of
\* turns taken (freeblocks counts the first chain block and every turn).
CursorInRange ==
    (pc = "map" /\ cfg.dev_blocks >= MKLANYFS_MIN_BLOCKS) =>
        /\ current >= LANYFS_SUPERBLOCK + 3
        /\ current <= cfg.dev_blocks
        /\ freeblocks - 1 = current - (LANYFS_SUPERBLOCK + 3)

\* The steps of the loop: it is entered with the cursor at 3, every turn
\* adds one to the cursor, and it is left with the cursor at the block count
\* after block count - 3 turns.
CursorStep ==
    cfg.dev_blocks >= MKLANYFS_MIN_BLOCKS =>
        /\ (pc = "chain" /\ pc' = "map") => current' = LANYFS_SUPERBLOCK + 3
        /\ (pc = "map" /\ pc' = "map") => current' = current + 1
        /\ (pc = "map" /\ pc' = "update") =>
               /\ current = cfg.dev_blocks
               /\ current' = current
               /\ freeblocks - 1 = cfg.dev_blocks - (LANYFS_SUPERBLOCK + 3)

\* C17 (allocator termination): for every valid configuration and effective
\* block count B >= 16 the mapping loop, once entered, is left; the cursor
\* is 3 on entry, grows by exactly 1 in every turn, whether the turn fills a
\* slot or replaces the chain block, never exceeds B, and is B when the
\* loop is left, after exactly B - 3 turns.  (A turn whose flush_block()
\* meets a seek or write error, or whose allocate_chain() gets no memory,
\* ends the process instead.)
C17_AllocatorTermination ==
    /\ []CursorInRange
    /\ [][CursorStep]_vars
    /\ (pc = "map" /\ cfg.dev_blocks >= MKLANYFS_MIN_BLOCKS)
           ~> \/ pc = "update" /\ current = cfg.dev_blocks
              \/ pc = "exit" /\ status = "failure" /\ errblock >= 2
              \/ pc = "exit" /\ status = "failure"
                     /\ errmsg = "error allocating chain"

\* C17 witness: the loop was left on a device of more than 16 blocks after
\* a turn that replaced a full chain block.
C17_Witness ==
    /\ pc = "update"
    /\ cfg.dev_blocks > MKLANYFS_MIN_BLOCKS
    /\ current = cfg.dev_blocks
    /\ FullChainBlocks # {}
    /\ freeblocks = cfg.dev_blocks - 2

\* Address a was handed to fwrite() before the latest write.
WrittenEarlier(a) == \E i \in 1..(Len(writes) - 1) : writes[i] = a

\* The number of times flush_block() has called fwrite() with block a,
\* whether or not fwrite() succeeded.
FlushCount(a) == Cardinality({i \in 1..Len(flushes) : flushes[i] = a})

\* C18 (superblock back-patch ordering): the first block write of a format
\* is the superblock, the superblock is written at most twice and exactly
\* twice by a successful format, and nothing is written after its second
\* write; while it has been written once the superblock on the device has
\* rootdir = freehead = freetail = freeblocks = 0; and when it is written
\* the second time it names a root directory and a free chain, from
\* freehead to freetail, whose blocks are all on the device already.
C18_BackPatchOrdering ==
    /\ flushes # <<>> => flushes[1] = LANYFS_SUPERBLOCK
    /\ FlushCount(LANYFS_SUPERBLOCK) <= 2
    /\ Formatted => FlushCount(LANYFS_SUPERBLOCK) = 2
    /\ FlushCount(LANYFS_SUPERBLOCK) = 2
           => flushes[Len(flushes)] = LANYFS_SUPERBLOCK
    /\ WriteCount(LANYFS_SUPERBLOCK) <= FlushCount(LANYFS_SUPERBLOCK)
    /\ WriteCount(LANYFS_SUPERBLOCK) = 1 =>
           /\ disk[LANYFS_SUPERBLOCK].rootdir = 0
           /\ disk[LANYFS_SUPERBLOCK].freehead = 0
           /\ disk[LANYFS_SUPERBLOCK].freetail = 0
           /\ disk[LANYFS_SUPERBLOCK].freeblocks = 0
    /\ WriteCount(LANYFS_SUPERBLOCK) = 2 =>
           /\ writes[Len(writes)] = LANYFS_SUPERBLOCK
           /\ disk[LANYFS_SUPERBLOCK].rootdir # 0
           /\ disk[LANYFS_SUPERBLOCK].freehead # 0
           /\ disk[LANYFS_SUPERBLOCK].freetail # 0
           /\ disk[LANYFS_SUPERBLOCK].rootdir \in DOMAIN disk
           /\ disk[disk[LANYFS_SUPERBLOCK].rootdir].type = LANYFS_TYPE_DIR
           /\ WrittenEarlier(disk[LANYFS_SUPERBLOCK].rootdir)
           /\ FreeChain # <<>>
           /\ FreeChain[Len(FreeChain)] = disk[LANYFS_SUPERBLOCK].freetail
           /\ disk[disk[LANYFS_SUPERBLOCK].freetail].next = 0
           /\ \A i \in 1..Len(FreeChain) : WrittenEarlier(FreeChain[i])

\* C18 witness: the second superblock write has just followed the writes of
\* the root directory and of two chain blocks of 144 slots on a device of
\* 150 blocks.
C18_Witness ==
    /\ pc = "close"
    /\ cfg.dev_blocks = 150
    /\ cfg.addrlen = 7
    /\ flushes = <<0, 1, 2, 147, 0>>
    /\ writes = <<0, 1, 2, 147, 0>>
    /\ FreeChain = <<2, 147>>
    /\ disk[LANYFS_SUPERBLOCK].freetail = 147

\* C19 (format/detect round trip): detectfs, run on the host that formatted
\* a device of at least 16 effective blocks, passes both checks and reports
\* version 1.4, the configured address length and block size, root dir 1,
\* total blocks = the effective block count, free head 2, the free tail and
\* free blocks mkfs.lanyfs computed, write counter 2 and an all-zero checked
\* timestamp.
C19_FormatDetectRoundTrip ==
    (/\ pc = "exit" /\ status = "success"
     /\ cfg.dev_blocks >= MKLANYFS_MIN_BLOCKS
     /\ dpc = "exit" /\ dbuf # <<>>) =>
        /\ derr = ""
        /\ Len(dout) = 16
        /\ dout[1] = <<"blocktype", LANYFS_TYPE_SB>>
        /\ dout[2] = <<"write counter", 2>>
        /\ dout[3] = <<"magic", LANYFS_SUPER_MAGIC>>
        /\ dout[4] = <<"version", <<1, 4>>>>
        /\ dout[5] = <<"address length", cfg.addrlen * 8>>
        /\ dout[6] = <<"blocksize", Pow2(cfg.blocksize)>>
        /\ dout[7] = <<"root dir", 1>>
        /\ dout[8] = <<"total blocks", cfg.dev_blocks>>
        /\ dout[9] = <<"free head", 2>>
        /\ dout[10] = <<"free tail", disk[LANYFS_SUPERBLOCK].freetail>>
        /\ dout[11] = <<"free blocks", disk[LANYFS_SUPERBLOCK].freeblocks>>
        /\ dout[14] = <<"checked",
                      [year |-> 0, mon |-> 0, day |-> 0, hour |-> 0,
                       min |-> 0, sec |-> 0, nsec |-> 0, offset_hours |-> 0,
                       offset_minutes |-> 0]>>

====
